---- MODULE Spec2Model ----
(***************************************************************************)
(* Model of the visit-ingestion and live-broadcast core of server.js:      *)
(* the /track handler (validation, lookup, upsert, re-read, aggregation,   *)
(* site-counter update, broadcast, response), the WebSocket connection     *)
(* registry, and the per-country aggregation.                              *)
(*                                                                         *)
(* Node runs a handler without interruption up to its next `await`, and   *)
(* the store executes each call at one moment while the handler waits.     *)
(* The actions of a request are therefore: its entry with the lookup, the  *)
(* upsert, the re-read, the site-counter update (each with the local code  *)
(* that follows it), and the synchronous broadcast and response.  Several  *)
(* requests are in flight at once and their actions interleave freely.     *)
(* The row's last_visit timestamp is written and never read: left out.     *)
(*                                                                         *)
(* A Set of sockets is the sequence of its elements in insertion order.    *)
(* A socket is OPEN from its connection, CLOSING once its closing          *)
(* handshake has started or it has emitted 'error', and CLOSED at its      *)
(* 'close' event; a message handed to send is appended to the socket's     *)
(* queue together with the id of its visit and its generation number.      *)
(***************************************************************************)
EXTENDS Integers, Sequences, FiniteSets, TLC

\* ---------------------------------------------------------------- bounds
MaxHandlers == 2     \* /track handlers that can be in flight at the same time
MaxVisits == 3       \* /track requests issued in a behaviour
MaxLiveVisits == 2   \* /track requests issued in a behaviour with dashboards connected
MaxSock == 2         \* WebSocket connections opened in a behaviour
MaxRows == 3         \* longest row sequence handed to the aggregation alone
MaxCount == 2        \* largest visit_count of a row handed to the aggregation alone

Handlers == 1..MaxHandlers
Sockets == 1..MaxSock

SiteIds == {"s1", "s2"}
ClientIds == {"c1", "c2"}
Countries == {"US", "FR"}
Pairs == SiteIds \X ClientIds
\* a query parameter that is absent or the empty string: falsy in `!siteId`
Missing == ""

\* ---------------------------------------------------------------- state
VARIABLES
    visitor_logs,   \* table visitor_logs: sequence of rows
    sites,          \* table sites: site_id -> [total_visitors, unique_visitors]
    connections,    \* Map siteId -> Set of sockets (domain = keys present); a Set is
                    \* the sequence of its elements in insertion order, each once
    readyState,     \* per socket: "NONE" (not yet connected), "OPEN", "CLOSING", "CLOSED"
    wsSiteId,       \* per socket: the siteId captured by the connection handler
    received,       \* per socket: sequence of messages handed to client.send
    req,            \* per handler: position and locals of a /track invocation in flight
    res,            \* the HTTP response sent last
    hist,           \* history of the invocation that sent it (storage calls made, the
                    \* failing call, registry and open sockets at its broadcast)
    tally,          \* history of the behaviour: visits started, successful visits per
                    \* (site, client), pairs raced, pairs with a failed visit, sockets
                    \* that emitted 'error', ...
    rowsIn,         \* aggregation alone: the rows given
    statsOut,       \* aggregation alone: <<>> or <<the statistics computed>>
    countryOut      \* aggregation alone: <<>> or <<the body of the /country-stats response>>

vars == <<visitor_logs, sites, connections, readyState, wsSiteId, received,
          req, res, hist, tally, rowsIn, statsOut, countryOut>>

storeVars == <<visitor_logs, sites>>
wsVars == <<connections, readyState, wsSiteId, received>>
aggVars == <<rowsIn, statsOut, countryOut>>

\* ---------------------------------------------------------------- storage
Row(s, c, k, n) == [site_id |-> s, client_id |-> c, country |-> k, visit_count |-> n]

\* .eq('site_id', s).eq('client_id', c)
SelectByKey(rows, s, c) ==
    SelectSeq(rows, LAMBDA row : row.site_id = s /\ row.client_id = c)

\* variant: the site filter dropped
SelectEverySite(rows, s) == rows

\* .eq('site_id', s)
SelectBySite(rows, s) ==
    SelectSeq(rows, LAMBDA row : row.site_id = s)

\* .single(): the row when exactly one matches; otherwise data is null and the
\* error is PGRST116, which the handler ignores
Single(rows) == IF Len(rows) = 1 THEN <<rows[1]>> ELSE <<>>

\* `x || 0` on a count: 0 (falsy) gives 0, any other number itself
OrZero(n) == IF n = 0 THEN 0 ELSE n

\* variant: the existing count ignored
NewVisitCountForgetful(existingVisits) == 1

\* (existingVisits?.visit_count || 0) + 1
NewVisitCount(existingVisits) ==
    OrZero(IF existingVisits = <<>> THEN 0 ELSE existingVisits[1].visit_count) + 1

KeyIndexes(rows, row) ==
    {i \in DOMAIN rows : rows[i].site_id = row.site_id /\ rows[i].client_id = row.client_id}

\* variant: a plain insert, no conflict key
UpsertAsInsert(rows, row) == Append(rows, row)

\* variant: on conflict the stored country is kept
UpsertKeepCountry(rows, row) ==
    IF KeyIndexes(rows, row) = {}
    THEN Append(rows, row)
    ELSE [i \in DOMAIN rows |->
            IF i \in KeyIndexes(rows, row) THEN [row EXCEPT !.country = rows[i].country]
            ELSE rows[i]]

\* .upsert([row], {onConflict: 'site_id,client_id'}): the row with that key is
\* replaced, a new key is inserted
Upsert(rows, row) ==
    IF KeyIndexes(rows, row) = {}
    THEN Append(rows, row)
    ELSE [i \in DOMAIN rows |-> IF i \in KeyIndexes(rows, row) THEN row ELSE rows[i]]

\* .from('sites').update({total_visitors, unique_visitors}).eq('site_id', s)
UpdateSite(tbl, s, total, unique) ==
    [x \in DOMAIN tbl |->
        IF x = s THEN [total_visitors |-> total, unique_visitors |-> unique] ELSE tbl[x]]

\* ---------------------------------------------------------------- aggregation
\* variant: rows counted instead of visit_count summed
TotalVisitsCountRows(stats) == Len(stats)

\* variant: the reducer returns the row's count without the sum so far
TotalVisitsLastRow(stats) ==
    IF stats = <<>> THEN 0 ELSE OrZero(stats[Len(stats)].visit_count)

RECURSIVE TotalVisits(_)
\* stats.reduce((sum, log) => sum + (log.visit_count || 0), 0)
TotalVisits(stats) ==
    IF stats = <<>> THEN 0
    ELSE TotalVisits(SubSeq(stats, 1, Len(stats) - 1)) + OrZero(stats[Len(stats)].visit_count)

\* new Set(stats.map(s => s.client_id)).size
UniqueVisitors(stats) == Cardinality({stats[i].client_id : i \in DOMAIN stats})

NoCountryStats == [k \in {} |-> [total |-> 0, unique |-> {}]]

RECURSIVE CountryAcc(_)
\* stats.forEach(log => {...}): per country the running total and the Set of clients
CountryAcc(stats) ==
    IF stats = <<>> THEN NoCountryStats
    ELSE LET acc == CountryAcc(SubSeq(stats, 1, Len(stats) - 1))
             log == stats[Len(stats)]
             old == IF log.country \in DOMAIN acc THEN acc[log.country]
                    ELSE [total |-> 0, unique |-> {}]
         IN  [k \in DOMAIN acc \cup {log.country} |->
                 IF k = log.country
                 THEN [total |-> old.total + OrZero(log.visit_count),
                       unique |-> old.unique \cup {log.client_id}]
                 ELSE acc[k]]

\* Object.keys(countryStats).forEach(code => countryStats[code].unique = ....size)
CountryStats(stats) ==
    LET acc == CountryAcc(stats)
    IN  [k \in DOMAIN acc |-> [total |-> acc[k].total, unique |-> Cardinality(acc[k].unique)]]

\* variant: every row adds 1 to the total of its country
AddLogCountingRows(countryStats, log) ==
    LET init == [k \in DOMAIN countryStats \cup {log.country} |->
                    IF k \in DOMAIN countryStats THEN countryStats[k]
                    ELSE [total |-> 0, unique |-> {}]]
    IN  [init EXCEPT ![log.country] =
            [total |-> @.total + 1, unique |-> @.unique \cup {log.client_id}]]

\* GET /country-stats/:siteId, lines 132-141: the body of data.forEach(log => ...)
AddLog(countryStats, log) ==
    LET init == [k \in DOMAIN countryStats \cup {log.country} |->
                    IF k \in DOMAIN countryStats THEN countryStats[k]
                    ELSE [total |-> 0, unique |-> {}]]
    IN  [init EXCEPT ![log.country] =
            [total |-> @.total + OrZero(log.visit_count),
             unique |-> @.unique \cup {log.client_id}]]

RECURSIVE ForEachLog(_, _, _)
\* data.forEach from the i-th row on
ForEachLog(data, i, countryStats) ==
    IF i > Len(data) THEN countryStats
    ELSE ForEachLog(data, i + 1, AddLog(countryStats, data[i]))

\* GET /country-stats/:siteId, lines 131-148: the loop over data, then the Sets
\* converted to their sizes
CountryStatsOfData(data) ==
    LET countryStats == ForEachLog(data, 1, NoCountryStats)
    IN  [k \in DOMAIN countryStats |->
            [total |-> countryStats[k].total, unique |-> Cardinality(countryStats[k].unique)]]

Stats(stats) ==
    [total |-> TotalVisits(stats), unique |-> UniqueVisitors(stats),
     countryStats |-> CountryStats(stats)]

\* ---------------------------------------------------------------- responses, messages
NoStats == [total |-> 0, unique |-> 0, countryStats |-> CountryStats(<<>>)]
\* the response sent last, with the id and the query of its request
Response(id, s, c, k, status, stats) ==
    [id |-> id, siteId |-> s, clientId |-> c, country |-> k, status |-> status, stats |-> stats]
NoResponse == Response(0, Missing, Missing, Missing, 0, NoStats)
\* res.status(500).json({error, details})
ErrorResponse(id, s, c, k) == Response(id, s, c, k, 500, NoStats)
\* res.json({success: true, stats: {total, unique, countryStats}})
SuccessResponse(id, s, c, k, stats) == Response(id, s, c, k, 200, Stats(stats))

\* variant: the message carries the number of rows as total
UpdateDataRowCount(stats, country) ==
    [type |-> "update",
     stats |-> [total |-> Len(stats), unique |-> UniqueVisitors(stats),
                country |-> country, countryStats |-> CountryStats(stats)]]

\* JSON.stringify({type: 'update', stats: {total, unique, country, countryStats}})
UpdateData(stats, country) ==
    [type |-> "update",
     stats |-> [total |-> TotalVisits(stats), unique |-> UniqueVisitors(stats),
                country |-> country, countryStats |-> CountryStats(stats)]]

\* the elements of a Set
Elements(set) == {set[i] : i \in DOMAIN set}

\* variant: the element is stored again when it is already there (Array.push)
SetAddAgain(set, x) == Append(set, x)

\* Set.prototype.add: an element that is already there is not added again
SetAdd(set, x) == IF x \in Elements(set) THEN set ELSE Append(set, x)

\* Set.prototype.delete
SetDelete(set, x) == SelectSeq(set, LAMBDA y : y # x)

RECURSIVE SetsOf(_, _)
\* the Sets of the sites S one after the other
SetsOf(conns, S) ==
    IF S = {} THEN <<>>
    ELSE LET x == CHOOSE y \in S : TRUE IN conns[x] \o SetsOf(conns, S \ {x})

\* variant: the sockets of every site
SubscriberSetOfAnySite(conns, s) == SetsOf(conns, DOMAIN conns)

\* connections.get(siteId) when connections.has(siteId); nothing to visit otherwise
SubscriberSet(conns, s) == IF s \in DOMAIN conns THEN conns[s] ELSE <<>>

\* the sockets registered for the site
Subscribers(conns, s) == Elements(SubscriberSet(conns, s))

\* variant: one subscriber that is not open stops the whole broadcast
RecipientsAllOrNone(members, state) ==
    IF \A w \in members : state[w] = "OPEN" THEN members ELSE {}

\* lines 174-177: the key is created with an empty Set when absent, then
\* connections.get(siteId).add(ws)
Subscribe(conns, s, w) ==
    [x \in DOMAIN conns \cup {s} |->
        IF x = s THEN SetAdd(IF s \in DOMAIN conns THEN conns[s] ELSE <<>>, w) ELSE conns[x]]

\* variant: the loop sends to every member, open or not
RecipientsEveryMember(members, state) == members

\* the clients of the forEach for which client.readyState === WebSocket.OPEN
Recipients(members, state) == {w \in members : state[w] = "OPEN"}

\* client.send(data) on a socket in this readyState: the ws library takes the
\* data of an open socket and raises an error for a socket that is not open
SendThrows(state) == state # "OPEN"

\* variant: the newest message overtakes the messages queued before it
SendAtFront(queue, msg) == <<msg>> \o queue

\* client.send(data) on an open socket: the message follows the ones sent before
Send(queue, msg) == Append(queue, msg)

\* how often set.forEach visits the socket w
Occurrences(set, w) == Cardinality({i \in DOMAIN set : set[i] = w})

RECURSIVE SendEach(_, _, _)
\* one send per visit of the loop
SendEach(queue, msg, n) ==
    IF n = 0 THEN queue ELSE Send(SendEach(queue, msg, n - 1), msg)


\* variant: country not validated
InvalidSkipCountry(s, c, k) == s = Missing \/ c = Missing

\* line 192: !siteId || !clientId || !country
Invalid(s, c, k) == s = Missing \/ c = Missing \/ k = Missing

\* the error of the lookup: "other" when the call fails, PGRST116 when .single()
\* does not find exactly one row
LookupError(ok, match) ==
    IF ~ok THEN "other" ELSE IF Len(match) = 1 THEN "none" ELSE "PGRST116"

\* line 206: visitError && visitError.code !== 'PGRST116'
LookupThrows(visitError) == visitError # "none" /\ visitError # "PGRST116"

\* variant: the error of a storage call ignored
ThrowsNever(error) == FALSE

\* lines 226, 237, 257: if (error) throw error
Throws(error) == error # "none"

CallError(ok) == IF ok THEN "none" ELSE "other"

\* ---------------------------------------------------------------- Init
IdleReq == [pc |-> "idle", id |-> 0, siteId |-> Missing, clientId |-> Missing,
            country |-> Missing, existingVisits |-> <<>>, stats |-> <<>>, failedCall |-> 0]
NoHist == [calls |-> 0, failedCall |-> 0, entry |-> FALSE, members |-> {}, open |-> {}]
NoTally == [started |-> 0, ok |-> [p \in Pairs |-> 0], raced |-> {}, failed |-> {},
            overlapped |-> FALSE, last |-> [p \in Pairs |-> Missing], errored |-> {}]

InitCore ==
    /\ visitor_logs = <<>>
    /\ sites = [s \in SiteIds |-> [total_visitors |-> 0, unique_visitors |-> 0]]
    /\ connections = [s \in {} |-> <<>>]
    /\ readyState = [w \in Sockets |-> "NONE"]
    /\ wsSiteId = [w \in Sockets |-> Missing]
    /\ received = [w \in Sockets |-> <<>>]
    /\ req = [h \in Handlers |-> IdleReq]
    /\ res = NoResponse
    /\ hist = NoHist
    /\ tally = NoTally

Init ==
    /\ InitCore
    /\ rowsIn = <<>>
    /\ statsOut = <<>>
    /\ countryOut = <<>>

InFlight == {q \in Handlers : req[q].pc # "idle"}

RECURSIVE SumOver(_, _)
SumOver(f, D) ==
    IF D = {} THEN 0
    ELSE LET d == CHOOSE x \in D : TRUE IN f[d] + SumOver(f, D \ {d})

\* the number of visits that have reached the broadcast block (lines 283-298) so far
Generated(t) == SumOver(t.ok, Pairs)

\* ---------------------------------------------------------------- /track
\* res.status(500).json(...) of the catch (lines 309-315) for the request with
\* this id and query, after `call` storage calls
Fail(h, id, s, c, k, call) ==
    /\ req' = [req EXCEPT ![h] = IdleReq]
    /\ res' = ErrorResponse(id, s, c, k)
    /\ hist' = [NoHist EXCEPT !.calls = call, !.failedCall = call]
    /\ tally' = [tally EXCEPT
          !.started = IF call <= 1 THEN id ELSE @,
          !.failed = IF call = 0 THEN @ ELSE @ \cup {<<s, c>>}]

FailOf(h, call) ==
    Fail(h, req[h].id, req[h].siteId, req[h].clientId, req[h].country, call)

\* lines 188-211: a request arrives with query (s, c, k); it is validated, the
\* lookup runs (ok: the call succeeds) and newVisitCount is known.  The handler
\* touches nothing shared between its entry and the lookup, so both are one step.
TrackStart(h, s, c, k, ok, n) ==
    /\ req[h].pc = "idle"
    /\ \A q \in 1..(h - 1) : req[q].pc # "idle"
    /\ tally.started < n
    /\ LET id == tally.started + 1
           match == SelectByKey(visitor_logs, s, c)
           visitError == LookupError(ok, match)
       IN  IF Invalid(s, c, k)
           THEN Fail(h, id, s, c, k, 0)
           ELSE IF LookupThrows(visitError)
           THEN Fail(h, id, s, c, k, 1)
           ELSE /\ req' = [req EXCEPT ![h] =
                             [IdleReq EXCEPT !.pc = "upsert", !.id = id, !.siteId = s,
                                  !.clientId = c, !.country = k,
                                  !.existingVisits = IF ok THEN Single(match) ELSE <<>>,
                                  !.failedCall = IF ok THEN 0 ELSE 1]]
                /\ UNCHANGED <<res, hist>>
                /\ tally' = [tally EXCEPT
                      !.started = id,
                      !.raced = IF \E q \in InFlight : req[q].siteId = s /\ req[q].clientId = c
                                THEN @ \cup {<<s, c>>} ELSE @,
                      !.overlapped = @ \/ InFlight # {}]
    /\ UNCHANGED <<storeVars, wsVars, aggVars>>

\* lines 214-229: the upsert runs
TrackUpsert(h, ok) ==
    /\ req[h].pc = "upsert"
    /\ visitor_logs' =
         IF ok THEN Upsert(visitor_logs,
                           Row(req[h].siteId, req[h].clientId, req[h].country,
                               NewVisitCount(req[h].existingVisits)))
         ELSE visitor_logs
    /\ IF Throws(CallError(ok))
       THEN FailOf(h, 2)
       ELSE /\ req' = [req EXCEPT ![h].pc = "reread",
                                  ![h].failedCall = IF ok THEN @ ELSE 2]
            /\ UNCHANGED <<res, hist, tally>>
    /\ UNCHANGED <<sites, wsVars, aggVars>>

\* lines 232-246: all rows of the site are read again
TrackReread(h, ok) ==
    /\ req[h].pc = "reread"
    /\ IF Throws(CallError(ok))
       THEN FailOf(h, 3)
       ELSE /\ req' = [req EXCEPT ![h].pc = "update",
                                  ![h].stats = IF ok THEN SelectBySite(visitor_logs, req[h].siteId)
                                               ELSE <<>>,
                                  ![h].failedCall = IF ok THEN @ ELSE 3]
            /\ UNCHANGED <<res, hist, tally>>
    /\ UNCHANGED <<storeVars, wsVars, aggVars>>

\* lines 249-260: the site counters are overwritten
TrackUpdateSite(h, ok) ==
    /\ req[h].pc = "update"
    /\ sites' =
         IF ok THEN UpdateSite(sites, req[h].siteId,
                               TotalVisits(req[h].stats), UniqueVisitors(req[h].stats))
         ELSE sites
    /\ IF Throws(CallError(ok))
       THEN FailOf(h, 4)
       ELSE /\ req' = [req EXCEPT ![h].pc = "broadcast",
                                  ![h].failedCall = IF ok THEN @ ELSE 4]
            /\ UNCHANGED <<res, hist, tally>>
    /\ UNCHANGED <<visitor_logs, wsVars, aggVars>>

\* lines 262-307: country stats, broadcast to the open sockets of the site, response.
\* The loop and the response run without an await: one step.  A send that throws
\* leaves the try block for the catch (lines 309-315).
TrackBroadcast(h) ==
    /\ req[h].pc = "broadcast"
    /\ LET set == SubscriberSet(connections, req[h].siteId)
           members == Elements(set)
           to == Recipients(members, readyState)
           thrown == \E w \in to : SendThrows(readyState[w])
           p == <<req[h].siteId, req[h].clientId>>
           msg == [id |-> req[h].id, gen |-> Generated(tally) + 1,
                   data |-> UpdateData(req[h].stats, req[h].country)]
       IN  /\ received' = [w \in Sockets |->
                             IF w \in to /\ ~SendThrows(readyState[w])
                             THEN SendEach(received[w], msg, Occurrences(set, w))
                             ELSE received[w]]
           /\ hist' = [calls |-> 4, failedCall |-> req[h].failedCall,
                       entry |-> req[h].siteId \in DOMAIN connections,
                       members |-> members,
                       open |-> {w \in Sockets : readyState[w] = "OPEN"}]
           /\ tally' = IF thrown THEN [tally EXCEPT !.failed = @ \cup {p}]
                       ELSE [tally EXCEPT !.ok[p] = @ + 1, !.last[p] = req[h].country]
           /\ res' = IF thrown
                     THEN ErrorResponse(req[h].id, req[h].siteId, req[h].clientId,
                                        req[h].country)
                     ELSE SuccessResponse(req[h].id, req[h].siteId, req[h].clientId,
                                          req[h].country, req[h].stats)
    /\ req' = [req EXCEPT ![h] = IdleReq]
    /\ UNCHANGED <<storeVars, connections, readyState, wsSiteId, aggVars>>

\* ---------------------------------------------------------------- WebSocket
\* lines 169-178: a connection opens; s is the siteId of its URL (Missing: none)
WsConnection(w, s) ==
    /\ readyState[w] = "NONE"
    /\ \A v \in 1..(w - 1) : readyState[v] # "NONE"
    /\ readyState' = [readyState EXCEPT ![w] = "OPEN"]
    /\ wsSiteId' = [wsSiteId EXCEPT ![w] = s]
    /\ connections' =
         IF s = Missing THEN connections ELSE Subscribe(connections, s, w)
    /\ UNCHANGED <<storeVars, received, req, res, hist, tally, aggVars>>

\* the closing handshake has started (either end): readyState is CLOSING and the
\* 'close' event has not been emitted yet
WsClosing(w) ==
    /\ readyState[w] = "OPEN"
    /\ readyState' = [readyState EXCEPT ![w] = "CLOSING"]
    /\ UNCHANGED <<storeVars, connections, wsSiteId, received, req, res, hist, tally, aggVars>>

\* the socket emits 'error' (a protocol violation of the peer, a failed write): the
\* library sets readyState to CLOSING first; the connection handler (lines
\* 169-185) has registered no listener for 'error', so nothing else changes
WsError(w) ==
    /\ readyState[w] = "OPEN"
    /\ readyState' = [readyState EXCEPT ![w] = "CLOSING"]
    /\ tally' = [tally EXCEPT !.errored = @ \cup {w}]
    /\ UNCHANGED <<storeVars, connections, wsSiteId, received, req, res, hist, aggVars>>

\* lines 180-184: the 'close' event
WsClose(w) ==
    /\ readyState[w] \in {"OPEN", "CLOSING"}
    /\ readyState' = [readyState EXCEPT ![w] = "CLOSED"]
    /\ connections' =
         IF wsSiteId[w] # Missing /\ wsSiteId[w] \in DOMAIN connections
         THEN [connections EXCEPT ![wsSiteId[w]] = SetDelete(@, w)]
         ELSE connections
    /\ UNCHANGED <<storeVars, wsSiteId, received, req, res, hist, tally, aggVars>>

\* ---------------------------------------------------------------- aggregation alone
RowsUpTo(n) == UNION {[1..m -> {Row("s1", c, k, v) : c \in ClientIds, k \in Countries,
                                                      v \in 1..MaxCount}] : m \in 0..n}

InitAgg ==
    /\ InitCore
    /\ rowsIn \in RowsUpTo(MaxRows)
    /\ statsOut = <<>>
    /\ countryOut = <<>>

\* lines 242-278 applied to the rows given
Aggregate ==
    /\ statsOut = <<>>
    /\ statsOut' = <<Stats(rowsIn)>>
    /\ UNCHANGED <<storeVars, wsVars, req, res, hist, tally, rowsIn, countryOut>>

\* lines 122-148 of GET /country-stats/:siteId applied to the rows given as the
\* data of its select
GetCountryStats ==
    /\ countryOut = <<>>
    /\ countryOut' = <<CountryStatsOfData(rowsIn)>>
    /\ UNCHANGED <<storeVars, wsVars, req, res, hist, tally, rowsIn, statsOut>>

\* ---------------------------------------------------------------- specifications
\* the /track steps of the handlers H for queries over S x C x K, the storage
\* calls succeeding or not as OK allows, n requests in all
TrackNext(H, S, C, K, OK, n) ==
    \/ \E h \in H, s \in S, c \in C, k \in K, ok \in OK : TrackStart(h, s, c, k, ok, n)
    \/ \E h \in H, ok \in OK : TrackUpsert(h, ok)
    \/ \E h \in H, ok \in OK : TrackReread(h, ok)
    \/ \E h \in H, ok \in OK : TrackUpdateSite(h, ok)
    \/ \E h \in H : TrackBroadcast(h)

\* the events of the sockets W, connecting with a siteId of S
WsNextOf(W, S) ==
    \/ \E w \in W, s \in S : WsConnection(w, s)
    \/ \E w \in W : WsClosing(w)
    \/ \E w \in W : WsClose(w)

WsNext == WsNextOf(Sockets, SiteIds \cup {Missing})

\* Visits arriving one after another (each request sent after the response to the
\* one before), with any query and storage calls that may fail.
NextSeq ==
    TrackNext({1}, SiteIds \cup {Missing}, ClientIds \cup {Missing},
                 Countries \cup {Missing}, BOOLEAN, MaxVisits)
SpecSeq == Init /\ [][NextSeq]_vars

\* Concurrent visits of every client to every site: up to MaxHandlers requests in
\* flight at once, their storage calls interleaved at every await.
NextConc == TrackNext(Handlers, SiteIds, ClientIds, {"US"}, {TRUE}, MaxVisits)
SpecConc == Init /\ [][NextConc]_vars

\* Visits to one site arriving one after another while dashboards of that site, of
\* another site and of no site connect and disconnect at any moment; storage
\* calls may fail.
NextLive ==
    \/ TrackNext({1}, {"s1", Missing}, {"c1", Missing}, {"US", Missing}, BOOLEAN,
                 MaxLiveVisits)
    \/ WsNext
SpecLive == Init /\ [][NextLive]_vars

\* Successful visits to one site arriving one after another while dashboards
\* connect, start closing, fail with an 'error' event and close.
NextErr ==
    \/ TrackNext({1}, {"s1"}, {"c1"}, {"US"}, {TRUE}, MaxLiveVisits)
    \/ WsNext
    \/ \E w \in Sockets : WsError(w)
SpecErr == Init /\ [][NextErr]_vars

\* Concurrent visits of one client to one site while dashboards of the site
\* connect and disconnect: the broadcasts of the visits may come in another order
\* than the requests.
NextRace ==
    \/ TrackNext(Handlers, {"s1"}, {"c1"}, {"US"}, {TRUE}, MaxLiveVisits)
    \/ WsNextOf(Sockets, {"s1"})
SpecRace == Init /\ [][NextRace]_vars

\* The aggregation of /track and the breakdown of /country-stats, each applied
\* once to the same rows.
NextAgg ==
    \/ Aggregate
    \/ GetCountryStats
SpecAgg == InitAgg /\ [][NextAgg]_vars

\* ---------------------------------------------------------------- properties
\* the stored visit_count of a (site, client) pair, 0 when it has no row
StoredCount(p) ==
    LET match == SelectByKey(visitor_logs, p[1], p[2])
    IN  IF match = <<>> THEN 0 ELSE match[1].visit_count

HandlersOf(p) == {h \in InFlight : req[h].siteId = p[1] /\ req[h].clientId = p[2]}

\* C1: when visits of one (site, client) pair ran concurrently and all of them have
\* completed, the stored visit_count has grown by exactly one per visit (here: it
\* equals the number of completed visits of the pair) -- no update is lost.
C1_NoLostUpdate ==
    \A p \in Pairs :
        (p \in tally.raced /\ HandlersOf(p) = {}) => StoredCount(p) = tally.ok[p]

\* C2: for a pair whose visits were issued one after another and all succeeded, the
\* stored visit_count equals the number of its visits, whatever other clients'
\* visits were in flight meanwhile: a visit that has upserted has stored the count
\* of the completed visits plus 1.
C2_SequentialVisitsCount ==
    \A p \in Pairs :
        (p \notin tally.raced /\ p \notin tally.failed) =>
            StoredCount(p) = tally.ok[p] +
                (IF \E h \in HandlersOf(p) : req[h].pc # "upsert" THEN 1 ELSE 0)

\* two visits of one client, one after the other, counted 2 while the visit of
\* another client was in flight
C2_Witness ==
    \E p \in Pairs :
        /\ p \notin tally.raced
        /\ tally.ok[p] = 2
        /\ StoredCount(p) = 2
        /\ HandlersOf(p) = {}
        /\ tally.overlapped
        /\ InFlight # {}

\* C9: the visitor log holds at most one row per (siteId, clientId) pair.
C9_OneRowPerPair ==
    \A p \in Pairs : Len(SelectByKey(visitor_logs, p[1], p[2])) <= 1

\* two concurrent first visits of one client have both upserted
C9_Witness ==
    \E p \in Pairs : \E h1, h2 \in HandlersOf(p) :
        /\ h1 # h2
        /\ req[h1].pc # "upsert" /\ req[h2].pc # "upsert"
        /\ req[h1].existingVisits = <<>> /\ req[h2].existingVisits = <<>>
        /\ Len(SelectByKey(visitor_logs, p[1], p[2])) = 1

SubscribedOpen(s) == {w \in Subscribers(connections, s) : readyState[w] = "OPEN"}

Ids(msgs) == {msgs[i].id : i \in DOMAIN msgs}

\* C3: taking up a request whose siteId, clientId or country is missing ends in the
\* error response at once: it makes no storage call, never becomes a handler in
\* flight, and leaves visitor logs, site counters and every socket's received
\* messages unchanged.
C3_InvalidRequestTouchesNothing ==
    [][tally'.started = tally.started + 1 =>
          /\ \A h \in Handlers :
                req'[h].id = tally'.started =>
                    ~(req'[h].siteId = Missing \/ req'[h].clientId = Missing
                      \/ req'[h].country = Missing)
          /\ (/\ res'.id = tally'.started
              /\ (res'.siteId = Missing \/ res'.clientId = Missing \/ res'.country = Missing))
             => /\ res'.status = 500
                /\ hist'.calls = 0
                /\ UNCHANGED <<visitor_logs, sites, received>>]_vars

\* a request for a site with an open subscriber, its country missing, was answered
\* with the error and the subscriber has received nothing
C3_Witness ==
    /\ res.status = 500
    /\ res.siteId # Missing /\ res.clientId # Missing /\ res.country = Missing
    /\ hist.calls = 0
    /\ visitor_logs = <<>>
    /\ \E w \in SubscribedOpen(res.siteId) : received[w] = <<>>

\* C4: a failed storage call ends the visit: no handler in flight has a failed call
\* behind it, and the response of a visit whose call failed is the error response,
\* that call was its last storage call, and no socket has received an update of
\* that visit.
C4_StorageFailureAborts ==
    /\ \A h \in Handlers : req[h].failedCall = 0
    /\ hist.failedCall # 0 =>
          /\ res.status = 500
          /\ hist.calls = hist.failedCall
          /\ \A w \in Sockets : res.id \notin Ids(received[w])

\* the site-counter update of a visit failed while a subscriber of its site was open
C4_Witness ==
    /\ hist.failedCall = 4
    /\ res.status = 500
    /\ \E w \in SubscribedOpen(res.siteId) : res.id \notin Ids(received[w])

\* C10: when a subscriber of the site was not open at the broadcast of a visit,
\* every subscriber of the site that was open has received the update of the visit.
C10_OpenSubscribersStillReceive ==
    (res.status = 200 /\ hist.members \ hist.open # {}) =>
        \A w \in hist.members \cap hist.open : res.id \in Ids(received[w])

\* a broadcast met one subscriber closing and one open
C10_Witness ==
    /\ res.status = 200
    /\ hist.members \ hist.open # {}
    /\ \E w \in hist.members \cap hist.open : res.id \in Ids(received[w])

ZeroCounters == [total_visitors |-> 0, unique_visitors |-> 0]

\* C5: a visit that ends in the error response leaves the aggregates as they were
\* before it -- so while every request so far has ended in the error response (no
\* visit has succeeded, none is in flight), the aggregate of every site's rows and
\* every site's counters are still those of the start.
C5_FailedVisitChangesNoAggregate ==
    (InFlight = {} /\ \A p \in Pairs : tally.ok[p] = 0) =>
        \A s \in SiteIds :
            /\ Stats(SelectBySite(visitor_logs, s)) = NoStats
            /\ sites[s] = ZeroCounters

RECURSIVE SumCounts(_, _)
\* the sum of visit_count over the rows at the indexes I
SumCounts(rows, I) ==
    IF I = {} THEN 0
    ELSE LET i == CHOOSE x \in I : TRUE
         IN  rows[i].visit_count + SumCounts(rows, I \ {i})

InCountry(rows, k) == {i \in DOMAIN rows : rows[i].country = k}

\* C6: the statistics computed from rows are total = sum of visit_count, unique =
\* number of distinct client_id, and for exactly the countries occurring in the rows
\* countryStats[k].total = sum of visit_count of the rows of k and
\* countryStats[k].unique = number of distinct client_id among them; no rows give
\* total 0, unique 0 and no country.
C6_StatsOfRows ==
    statsOut # <<>> =>
        LET out == statsOut[1]
        IN  /\ out.total = SumCounts(rowsIn, DOMAIN rowsIn)
            /\ out.unique = Cardinality({rowsIn[i].client_id : i \in DOMAIN rowsIn})
            /\ DOMAIN out.countryStats = {rowsIn[i].country : i \in DOMAIN rowsIn}
            /\ \A k \in DOMAIN out.countryStats :
                  /\ out.countryStats[k].total = SumCounts(rowsIn, InCountry(rowsIn, k))
                  /\ out.countryStats[k].unique =
                        Cardinality({rowsIn[i].client_id : i \in InCountry(rowsIn, k)})
            /\ rowsIn = <<>> =>
                  (out.total = 0 /\ out.unique = 0 /\ DOMAIN out.countryStats = {})

\* rows of two clients in one country and of one of them in another were aggregated
C6_Witness ==
    /\ statsOut # <<>>
    /\ Len(rowsIn) = 3
    /\ statsOut[1].unique = 2
    /\ statsOut[1].total > 3
    /\ \E k \in DOMAIN statsOut[1].countryStats :
          statsOut[1].countryStats[k].unique = 2 /\ statsOut[1].countryStats[k].total >= 3
    /\ Cardinality(DOMAIN statsOut[1].countryStats) = 2

RECURSIVE SumOk(_, _)
\* the number of completed visits to site s of the clients C
SumOk(s, C) ==
    IF C = {} THEN 0
    ELSE LET c == CHOOSE x \in C : TRUE
         IN  tally.ok[<<s, c>>] + SumOk(s, C \ {c})

Visitors(s) == {c \in ClientIds : tally.ok[<<s, c>>] > 0}
VisitorsFrom(s, k) == {c \in Visitors(s) : tally.last[<<s, c>>] = k}

\* C7: after successful visits to a site one after another, the statistics of the
\* last response and the site's counters are: total = number of visits, unique =
\* number of distinct clients, and countryStats has exactly the countries of the
\* clients' latest visits, each with total = the visits of the clients whose latest
\* visit had that country and unique = the number of those clients.
C7_SequentialStats ==
    LET s == res.siteId
    IN  (/\ res.status = 200
         /\ InFlight = {}
         /\ ~tally.overlapped
         /\ \A c \in ClientIds : <<s, c>> \notin tally.failed) =>
            /\ res.stats.total = SumOk(s, ClientIds)
            /\ res.stats.unique = Cardinality(Visitors(s))
            /\ DOMAIN res.stats.countryStats = {tally.last[<<s, c>>] : c \in Visitors(s)}
            /\ \A k \in DOMAIN res.stats.countryStats :
                  /\ res.stats.countryStats[k].total = SumOk(s, VisitorsFrom(s, k))
                  /\ res.stats.countryStats[k].unique = Cardinality(VisitorsFrom(s, k))
            /\ sites[s].total_visitors = SumOk(s, ClientIds)
            /\ sites[s].unique_visitors = Cardinality(Visitors(s))

\* visits (c1, US), (c2, US), (c1, US) to s1 gave total 3, unique 2, US = {3, 2}
C7_Witness ==
    /\ res.status = 200 /\ res.siteId = "s1" /\ InFlight = {}
    /\ tally.failed = {} /\ ~tally.overlapped
    /\ tally.ok[<<"s1", "c1">>] = 2 /\ tally.ok[<<"s1", "c2">>] = 1
    /\ res.stats.total = 3 /\ res.stats.unique = 2
    /\ res.stats.countryStats = [k \in {"US"} |-> [total |-> 3, unique |-> 2]]
    /\ sites["s1"] = [total_visitors |-> 3, unique_visitors |-> 2]

OrNone(countryStats, k) ==
    IF k \in DOMAIN countryStats THEN countryStats[k] ELSE [total |-> 0, unique |-> 0]

\* C8: when a visit that found its client stored with country A and count N upserts
\* with another country B, the aggregate of the site's rows attributes N+1 visits
\* and one unique client more to B than the other clients' rows alone, and for A
\* exactly what the other clients' rows alone give (no key A when none of them is
\* in A); and the row of a pair changes only at an upsert of that pair, so every
\* later aggregate sees the same until the client visits again.
C8_CountryLastWriteWins ==
    [][/\ \A h \in Handlers :
            (/\ req[h].pc = "upsert" /\ req'[h].pc = "reread"
             /\ req[h].existingVisits # <<>>
             /\ req[h].existingVisits[1].country # req[h].country) =>
                LET A == req[h].existingVisits[1].country
                    B == req[h].country
                    N == req[h].existingVisits[1].visit_count
                    rows == SelectBySite(visitor_logs', req[h].siteId)
                    others == SelectSeq(rows, LAMBDA row : row.client_id # req[h].clientId)
                    all == CountryStats(rows)
                    rest == CountryStats(others)
                IN  /\ B \in DOMAIN all
                    /\ all[B].total = OrNone(rest, B).total + N + 1
                    /\ all[B].unique = OrNone(rest, B).unique + 1
                    /\ A \in DOMAIN all <=> A \in DOMAIN rest
                    /\ OrNone(all, A) = OrNone(rest, A)
       /\ \A p \in Pairs :
            SelectByKey(visitor_logs', p[1], p[2]) # SelectByKey(visitor_logs, p[1], p[2]) =>
                \E h \in HandlersOf(p) : req[h].pc = "upsert" /\ req'[h].pc = "reread"]_vars

\* a client stored with one country has just upserted with the other, while another
\* client of the site stays in the first country
C8_Witness ==
    \E h \in InFlight :
        /\ req[h].pc = "reread"
        /\ req[h].existingVisits # <<>>
        /\ req[h].existingVisits[1].country # req[h].country
        /\ \E i \in DOMAIN visitor_logs :
              /\ visitor_logs[i].site_id = req[h].siteId
              /\ visitor_logs[i].client_id # req[h].clientId
              /\ visitor_logs[i].country = req[h].existingVisits[1].country

\* C11: whenever all four storage calls of a visit succeeded, its response is the
\* success response carrying the statistics of the site's rows, whatever the
\* registry and the sockets' states were at its broadcast: a subscriber that is
\* closing or closed never turns the response into an error.
C11_DeliveryFailureNeverFailsRequest ==
    (hist.calls = 4 /\ hist.failedCall = 0 /\ InFlight = {}) =>
        /\ res.status = 200
        /\ res.stats = Stats(SelectBySite(visitor_logs, res.siteId))

\* a visit succeeded although no subscriber of its site was open at its broadcast
C11_Witness ==
    /\ hist.calls = 4 /\ hist.failedCall = 0 /\ InFlight = {}
    /\ hist.members # {} /\ hist.members \cap hist.open = {}
    /\ \E w \in hist.members : readyState[w] = "CLOSING"
    /\ res.status = 200 /\ res.stats.total >= 1

\* the messages of visit id that the sockets have received
UpdatesOf(id) ==
    {msg \in UNION {{received[w][i] : i \in DOMAIN received[w]} : w \in Sockets} : msg.id = id}

\* C12: all subscribers that received the update of one visit received the same
\* payload, and the update of the visit answered last has type 'update', the
\* total, unique and countryStats of the HTTP response (the aggregate of the
\* visit's re-read) and the country of the visit.
C12_IdenticalPayload ==
    /\ \A w1, w2 \in Sockets : \A i \in DOMAIN received[w1], j \in DOMAIN received[w2] :
          received[w1][i].id = received[w2][j].id => received[w1][i] = received[w2][j]
    /\ \A msg \in UpdatesOf(res.id) :
          /\ msg.data.type = "update"
          /\ msg.data.stats.total = res.stats.total
          /\ msg.data.stats.unique = res.stats.unique
          /\ msg.data.stats.countryStats = res.stats.countryStats
          /\ msg.data.stats.country = res.country
          /\ res.status = 200

\* two subscribers have received the update of the second visit of a client
C12_Witness ==
    /\ res.status = 200 /\ res.stats.total = 2
    /\ \E w1, w2 \in Sockets :
          /\ w1 # w2
          /\ res.id \in Ids(received[w1]) /\ res.id \in Ids(received[w2])
    /\ \E msg \in UpdatesOf(res.id) : msg.data.stats.total = 2

\* C14: a visit whose site had no registry entry, or an entry with an empty set,
\* at its broadcast ends in the success response and no socket has received an
\* update of it.
C14_NoSubscribersNoSend ==
    (hist.calls = 4 /\ hist.failedCall = 0 /\ (~hist.entry \/ hist.members = {})) =>
        /\ res.status = 200
        /\ \A w \in Sockets : res.id \notin Ids(received[w])

\* the only subscriber of the site had closed before the broadcast (its entry is
\* left with an empty set) while a dashboard of another site was open
C14_Witness ==
    /\ hist.calls = 4 /\ hist.failedCall = 0
    /\ hist.entry /\ hist.members = {}
    /\ res.status = 200
    /\ \E w \in hist.open : wsSiteId[w] # Missing /\ received[w] = <<>>

\* a visit to a site that never had a subscriber, a dashboard of another site open
C14_WitnessNoEntry ==
    /\ hist.calls = 4 /\ hist.failedCall = 0
    /\ ~hist.entry
    /\ res.status = 200
    /\ \E w \in hist.open : wsSiteId[w] # Missing /\ received[w] = <<>>

\* C16: a subscriber of the site that was not open at the broadcast of a visit is
\* no longer a member of the site's subscriber set after that broadcast.
C16_UndeliverableSubscriberRemoved ==
    (hist.calls = 4 /\ hist.failedCall = 0) =>
        \A w \in hist.members \ hist.open : w \notin Subscribers(connections, res.siteId)

\* C17: registering a socket that is already in the site's set leaves the registry
\* unchanged, a socket appears at most once in a site's set, and no socket has
\* received the update of one visit more than once.
C17_SubscribeIdempotent ==
    /\ \A s \in DOMAIN connections : \A w \in Elements(connections[s]) :
          Subscribe(connections, s, w) = connections
    /\ \A s \in DOMAIN connections : \A i, j \in DOMAIN connections[s] :
          connections[s][i] = connections[s][j] => i = j
    /\ \A w \in Sockets : \A i, j \in DOMAIN received[w] :
          received[w][i].id = received[w][j].id => i = j

\* two dashboards of one site are registered and each has received the updates of
\* two visits
C17_Witness ==
    \E s \in DOMAIN connections :
        /\ Len(connections[s]) = 2
        /\ \A w \in Elements(connections[s]) : Len(received[w]) = 2

\* C15: a socket whose connection has closed or has emitted 'error' is a member of
\* no site's subscriber set, and deleting a socket that is no member (a repeated
\* close) leaves the registry unchanged.
C15_ClosedOrErroredNotRegistered ==
    /\ \A w \in Sockets :
          (readyState[w] = "CLOSED" \/ w \in tally.errored) =>
              \A s \in DOMAIN connections : w \notin Elements(connections[s])
    /\ \A s \in DOMAIN connections : \A w \in Sockets \ Elements(connections[s]) :
          SetDelete(connections[s], w) = connections[s]

Orderings(n) == {f \in [1..n -> 1..n] : \A i, j \in 1..n : f[i] = f[j] => i = j}

Reordered(rows, f) == [i \in DOMAIN rows |-> rows[f[i]]]

\* C18: the statistics computed from the rows are those computed from every
\* reordering of the same rows: total, unique and countryStats with every
\* country's total and unique.
C18_OrderIndependent ==
    statsOut # <<>> =>
        \A f \in Orderings(Len(rowsIn)) :
            LET other == Stats(Reordered(rowsIn, f))
            IN  /\ other.total = statsOut[1].total
                /\ other.unique = statsOut[1].unique
                /\ DOMAIN other.countryStats = DOMAIN statsOut[1].countryStats
                /\ \A k \in DOMAIN other.countryStats :
                      /\ other.countryStats[k].total = statsOut[1].countryStats[k].total
                      /\ other.countryStats[k].unique = statsOut[1].countryStats[k].unique

\* the rows of two clients, in different countries and with different counts,
\* were aggregated: the other ordering gives the same statistics
C18_Witness ==
    /\ statsOut # <<>>
    /\ Len(rowsIn) = 2
    /\ rowsIn[1].client_id # rowsIn[2].client_id
    /\ rowsIn[1].country # rowsIn[2].country
    /\ rowsIn[1].visit_count # rowsIn[2].visit_count
    /\ \E f \in Orderings(2) :
          /\ Reordered(rowsIn, f) # rowsIn
          /\ Stats(Reordered(rowsIn, f)) = statsOut[1]

\* C19: every stored row has visit_count >= 1, and no step decreases the stored
\* visit_count of a (site, client) pair, under any interleaving of the visits.
C19_CountNeverDecreases ==
    [][/\ \A i \in DOMAIN visitor_logs' : visitor_logs'[i].visit_count >= 1
       /\ \A p \in Pairs :
            LET before == SelectByKey(visitor_logs, p[1], p[2])
                after == SelectByKey(visitor_logs', p[1], p[2])
            IN  before # <<>> =>
                    after # <<>> /\ after[1].visit_count >= before[1].visit_count]_vars

\* the rows of the client of handler h among the rows h has re-read
OwnRows(h) == {i \in DOMAIN req[h].stats : req[h].stats[i].client_id = req[h].clientId}

\* C20: a visit that has re-read the rows of its site has read a row of its own
\* client, so its statistics have unique >= 1, total >= the count it upserted, and
\* a countryStats entry with unique >= 1 for the country of its client's row.
C20_ObservesOwnWrite ==
    \A h \in InFlight :
        req[h].pc \in {"update", "broadcast"} =>
            /\ OwnRows(h) # {}
            /\ UniqueVisitors(req[h].stats) >= 1
            /\ TotalVisits(req[h].stats) >= NewVisitCount(req[h].existingVisits)
            /\ \E i \in OwnRows(h) :
                  /\ req[h].stats[i].country \in DOMAIN CountryStats(req[h].stats)
                  /\ CountryStats(req[h].stats)[req[h].stats[i].country].unique >= 1

\* the part of C20 without the total: the re-read of a visit contains a row of its
\* own client, counted in unique and in the countryStats entry of its country
C20_OwnRowObserved ==
    \A h \in InFlight :
        req[h].pc \in {"update", "broadcast"} =>
            /\ OwnRows(h) # {}
            /\ UniqueVisitors(req[h].stats) >= 1
            /\ \E i \in OwnRows(h) :
                  /\ req[h].stats[i].country \in DOMAIN CountryStats(req[h].stats)
                  /\ CountryStats(req[h].stats)[req[h].stats[i].country].unique >= 1

\* C21: while no visit to a site is in flight (all its visits completed
\* successfully), the site's stored total_visitors and unique_visitors are the
\* sum of visit_count and the number of distinct clients of the site's rows.
C21_CountersMatchRows ==
    \A s \in SiteIds :
        (\A h \in InFlight : req[h].siteId # s) =>
            /\ sites[s].total_visitors = TotalVisits(SelectBySite(visitor_logs, s))
            /\ sites[s].unique_visitors = UniqueVisitors(SelectBySite(visitor_logs, s))

\* C22: a step of a visit leaves the registry as it is, and a socket receives a
\* message only in the broadcast of a visit to the site the socket registered
\* for: sockets of other sites and sockets connected without a siteId receive
\* nothing from it.
C22_OnlySubscribersOfTheSite ==
    [][/\ (req' # req \/ res' # res) => connections' = connections
       /\ \A w \in Sockets :
            received'[w] # received[w] =>
                \E h \in Handlers :
                    /\ req[h].pc = "broadcast" /\ req'[h].pc = "idle"
                    /\ wsSiteId[w] = req[h].siteId
                    /\ w \in Subscribers(connections', req[h].siteId)]_vars

\* the update of a visit went to the dashboard of its site while an open
\* dashboard of another site has received nothing
C22_Witness ==
    /\ res.status = 200
    /\ \E w1, w2 \in hist.open :
          /\ wsSiteId[w1] = res.siteId /\ res.id \in Ids(received[w1])
          /\ wsSiteId[w2] \notin {res.siteId, Missing}
          /\ received[w2] = <<>>

\* the same with an open connection without a siteId
C22_WitnessNoSiteId ==
    /\ res.status = 200
    /\ \E w1, w2 \in hist.open :
          /\ wsSiteId[w1] = res.siteId /\ res.id \in Ids(received[w1])
          /\ wsSiteId[w2] = Missing
          /\ received[w2] = <<>>

\* C23: for the same rows of a site, the breakdown served by /country-stats and
\* the countryStats of /track have the same country keys with the same total and
\* unique for each.
C23_SameBreakdown ==
    (statsOut # <<>> /\ countryOut # <<>>) =>
        /\ DOMAIN countryOut[1] = DOMAIN statsOut[1].countryStats
        /\ \A k \in DOMAIN countryOut[1] :
              /\ countryOut[1][k].total = statsOut[1].countryStats[k].total
              /\ countryOut[1][k].unique = statsOut[1].countryStats[k].unique

\* both were computed from the rows of two clients, one per country, with
\* different counts
C23_Witness ==
    /\ statsOut # <<>> /\ countryOut # <<>>
    /\ Len(rowsIn) = 2
    /\ rowsIn[1].client_id # rowsIn[2].client_id
    /\ Cardinality(DOMAIN countryOut[1]) = 2
    /\ \E k \in DOMAIN countryOut[1] : countryOut[1][k] = [total |-> 2, unique |-> 1]
    /\ countryOut[1] = statsOut[1].countryStats

====
